---- MODULE Spec2Model ----
(***************************************************************************)
(* A model of SQLAlchemy's C extensions:                                   *)
(*   cextension/immutabledict.c  (the immutabledict type)                  *)
(*   cextension/resultproxy.c    (the BaseRow type)                        *)
(* Python objects are modelled as values in a small heap; every C function *)
(* exposed to Python is one action, translated statement by statement.     *)
(***************************************************************************)
EXTENDS Integers, Sequences, FiniteSets, TLC

(***************************************************************************)
(* Bounds                                                                  *)
(***************************************************************************)
MaxImm   == 1      \* immutabledict instances the caller constructs
MaxPairs == 1      \* length of a sequence-of-pairs argument
MaxArgs  == 2      \* positional arguments passed to merge_with
MaxRow   == 2      \* number of values in a row
LongMax  == 5      \* LONG_MAX of the C long, scaled down: AsLong overflows beyond it
MaxUnit  == 2      \* fields in a positional unit, units in a list argument
MaxMulti == 2      \* parameter arguments passed to _distill_params

Keys == {"a", "b"}            \* string keys stored in dictionaries
Vals == {1, 2}                \* stored values
ObjKey  == "obj#"             \* a hashable key that is not a str
BadKey  == "unhashable#"      \* a key whose hashing raises
LookupKeys == Keys \cup {"c", ObjKey, BadKey}

NULL == 0                     \* the C NULL pointer (object identities start at 1)
None == "None"                \* Py_None

(***************************************************************************)
(* Plain dict contents: a function from a subset of Keys to Vals           *)
(***************************************************************************)
EmptyDict == [k \in {} |-> 1]

\* PyDict_Update(d, e): e's bindings override d's
PyDict_Update(d, e) ==
    [k \in (DOMAIN d) \cup (DOMAIN e) |-> IF k \in DOMAIN e THEN e[k] ELSE d[k]]

PyDict_Size(d) == Cardinality(DOMAIN d)

\* dict(iterable of pairs): pairs are inserted in order, a later pair
\* overrides an earlier one with the same key
RECURSIVE DictFromPairs(_)
DictFromPairs(s) ==
    IF Len(s) = 0 THEN EmptyDict
    ELSE LET init == DictFromPairs(SubSeq(s, 1, Len(s) - 1))
             p    == s[Len(s)]
         IN  PyDict_Update(init, [k \in {p[1]} |-> p[2]])

\* the (key, value) pairs callers put in sequence arguments
Pairs == {<<"a", 2>>, <<"b", 2>>}
PairSeqs == UNION {[1..n -> Pairs] : n \in 0..MaxPairs}

\* keyword bindings callers pass
Kws == {EmptyDict} \cup {[k \in {x} |-> 2] : x \in Keys}

(***************************************************************************)
(* State                                                                   *)
(***************************************************************************)
VARIABLES
    dictobj,   \* heap of plain dict objects: sequence of contents, index = identity
    held,      \* identities of the dict objects the caller holds a reference to
    imm,       \* heap of immutabledict objects: sequence of [dict |-> identity or NULL]
    born,      \* contents each immutabledict had when its constructor returned
    res,       \* the last call: operation, inputs, return value, error indicator
    rowobj,    \* the BaseRow object: parent, row, keymap, key_style
    keymapobj, \* heap of keymap dicts shared by rows: key -> record
    made,      \* the arguments the row's constructor was called with
    trace,     \* processors and owner hooks invoked by the last row call, in order
    rres,      \* the last row call: operation, key, return value, error indicator
    peer,      \* the BaseRow object the last row call created and returned
    hashes,    \* hash(row) and hash(peer) as far as the caller has taken them
    dcall,     \* the last _distill_params call: arguments, return value, error
    dprev      \* the _distill_params call before it, on the same multiparams

dvars == <<dictobj, held, imm, born, res>>

rvars == <<rowobj, keymapobj, made, trace, rres, peer, hashes>>

pvars == <<dcall, dprev>>

vars == <<dictobj, held, imm, born, res, rowobj, keymapobj, made, trace, rres, peer, hashes,
         dcall, dprev>>

(***************************************************************************)
(* Argument objects handed to the immutabledict methods                    *)
(***************************************************************************)
ArgNone     == [t |-> "none",  id |-> 0, s |-> <<>>]    \* Py_None
ArgBad      == [t |-> "bad",   id |-> 0, s |-> <<>>]    \* e.g. the integer 5
ArgDict(i)  == [t |-> "dict",  id |-> i, s |-> <<>>]    \* an exact dict object
ArgImm(j)   == [t |-> "imm",   id |-> j, s |-> <<>>]    \* an immutabledict
ArgPairs(s) == [t |-> "pairs", id |-> 0, s |-> s]       \* list/tuple of (k, v)

ArgVals ==
    {ArgNone, ArgBad}
      \cup {ArgDict(i) : i \in held}
      \cup {ArgImm(j) : j \in 1..Len(imm)}
      \cup {ArgPairs(s) : s \in PairSeqs}

\* argument tuples of new() and union(): PyArg_UnpackTuple accepts 0 or 1
ArgTuples == {<<>>, <<ArgNone, ArgNone>>} \cup {<<x>> : x \in ArgVals}

\* argument tuples of merge_with()
MergeArgs == UNION {[1..n -> ArgVals] : n \in 0..MaxArgs}

PyDict_CheckExact(x) == x.t = "dict"

Ok(d)    == [ok |-> TRUE,  d |-> d,         err |-> "none"]
Fail(e)  == [ok |-> FALSE, d |-> EmptyDict, err |-> e]

\* dict(x) for one positional argument x
ToDict(x) ==
    CASE x.t = "dict"  -> Ok(dictobj[x.id])
      [] x.t = "pairs" -> Ok(DictFromPairs(x.s))
      [] x.t = "imm"   -> IF imm[x.id].dict = NULL
                             THEN Fail("SystemError")   \* keys() on missing storage
                             ELSE Ok(dictobj[imm[x.id].dict])
      [] OTHER         -> Fail("TypeError")             \* not iterable

\* PyObject_Call(&PyDict_Type, args, kw)
DictCall(args, kw) ==
    IF Len(args) > 1 THEN Fail("TypeError")
    ELSE LET base == IF Len(args) = 0 THEN Ok(EmptyDict) ELSE ToDict(args[1])
         IN  IF base.ok THEN Ok(PyDict_Update(base.d, kw)) ELSE base

(***************************************************************************)
(* Return values and the call record                                       *)
(***************************************************************************)
RetNULL      == [t |-> "NULL", id |-> 0]
RetImm(j)    == [t |-> "imm",  id |-> j]
RetVal(v)    == [t |-> "val",  v |-> v]
RetDict(i)   == [t |-> "dict", id |-> i]

NoKey == "-"

Call(op, self, args, kw, key, ret, err, ndict, nimm) ==
    [op |-> op, self |-> self, args |-> args, kw |-> kw, key |-> key,
     ret |-> ret, err |-> err, ndict |-> ndict, nimm |-> nimm, by |-> "caller"]

\* a read of instance self by reader r
Read(op, r, self, key, ret, err) ==
    [op |-> op, self |-> self, args |-> <<>>, kw |-> EmptyDict, key |-> key,
     ret |-> ret, err |-> err, ndict |-> 0, nimm |-> 0, by |-> r]

Readers == {"r1", "r2"}

\* no call result is pending
NoCall == Call("idle", 0, <<>>, EmptyDict, NoKey, RetNULL, "none", 0, 0)
Idle == res = NoCall

HasDict(self) == imm[self].dict # NULL
SelfDict(self) == dictobj[imm[self].dict]

\* allocate an immutabledict around a fresh dict object with contents d
Alloc(d) ==
    /\ dictobj' = Append(dictobj, d)
    /\ imm' = Append(imm, [dict |-> Len(dictobj) + 1])
    /\ born' = Append(born, d)
    /\ UNCHANGED held

(***************************************************************************)
(* The constructor: tp_new of immutabledict                                *)
(***************************************************************************)
NewDict(args, kw) ==
    IF PyDict_CheckExact(args[1])
        THEN Ok(PyDict_Update(EmptyDict, dictobj[args[1].id]))
        ELSE DictCall(args, kw)

ImmutableDict_new(args, kw, handed) ==
    /\ Len(imm) < MaxImm
    /\ IF Len(args) > 1
       THEN /\ res' = Call("new", 0, args, kw, NoKey, RetNULL, "TypeError", 0, 0)
            /\ UNCHANGED <<dictobj, held, imm, born>>
       ELSE LET our == IF Len(args) = 1 THEN NewDict(args, kw)
                                        ELSE DictCall(args, kw)
            IN  IF our.ok
                THEN /\ Alloc(our.d)
                     /\ res' = Call("new", 0, args, kw, NoKey,
                                     RetImm(Len(imm) + 1), "none", 1, 1)
                ELSE \* our_dict is NULL and is stored unchecked; the object is
                     \* returned with the error indicator set.  An interpreter
                     \* that checks call results replaces it by SystemError,
                     \* one that does not hands the object to the caller.
                     IF handed
                     THEN /\ imm' = Append(imm, [dict |-> NULL])
                          /\ born' = Append(born, EmptyDict)
                          /\ res' = Call("new", 0, args, kw, NoKey,
                                          RetImm(Len(imm) + 1), our.err, 0, 1)
                          /\ UNCHANGED <<dictobj, held>>
                     ELSE /\ res' = Call("new", 0, args, kw, NoKey,
                                          RetNULL, "SystemError", 0, 1)
                          /\ UNCHANGED <<dictobj, held, imm, born>>

(***************************************************************************)
(* union: METH_VARARGS | METH_KEYWORDS                                     *)
(***************************************************************************)
\* What arg_dict holds when the argument tuple is empty: PyArg_UnpackTuple
\* leaves the uninitialised local untouched, so it is whatever the frame
\* held: an unreadable address, some non-dict object, or a stale dict.
Garbage == {[t |-> "fault", id |-> 0], [t |-> "other", id |-> 0]}
             \cup {[t |-> "dict", id |-> i] : i \in 1..Len(dictobj)}

\* the dictionary union() overlays on self, and the dicts built to get it
UnionArg(args, kw, g) ==
    IF Len(args) = 0
    THEN CASE g.t = "fault" -> Fail("Fault") @@ [ndict |-> 0]
           [] g.t = "dict"  -> Ok(dictobj[g.id]) @@ [ndict |-> 0]
           [] OTHER         -> LET c == DictCall(args, kw)
                               IN  c @@ [ndict |-> IF c.ok THEN 1 ELSE 0]
    ELSE IF PyDict_CheckExact(args[1])
         THEN Ok(dictobj[args[1].id]) @@ [ndict |-> 0]
         ELSE LET c == DictCall(args, kw)
              IN  c @@ [ndict |-> IF c.ok THEN 1 ELSE 0]

\* the two updates in the opposite order: self overrides the argument
UnionDict_SelfWins(selfd, argd) == PyDict_Update(PyDict_Update(EmptyDict, argd), selfd)

\* new_dict after the two PyDict_Update calls: self first, then the argument
UnionDict(selfd, argd) == PyDict_Update(PyDict_Update(EmptyDict, selfd), argd)

\* the emptiness test left out: union always builds a new instance
UnionNoop_Never(argd) == FALSE

\* the test "PyDict_Size(arg_dict) == 0" that selects the return of self
UnionNoop(argd) == PyDict_Size(argd) = 0

ImmutableDict_union(self, args, kw, g) ==
    /\ Len(imm) <= MaxImm          \* room for the one instance it may return
    /\ IF Len(args) > 1
       THEN /\ res' = Call("union", self, args, kw, NoKey, RetNULL, "TypeError", 0, 0)
            /\ UNCHANGED <<dictobj, held, imm, born>>
       ELSE LET a == UnionArg(args, kw, g)
            IN  IF ~a.ok
                THEN /\ res' = Call("union", self, args, kw, NoKey, RetNULL, a.err, a.ndict, 0)
                     /\ UNCHANGED <<dictobj, held, imm, born>>
                ELSE IF UnionNoop(a.d)
                THEN /\ res' = Call("union", self, args, kw, NoKey, RetImm(self), "none", a.ndict, 0)
                     /\ UNCHANGED <<dictobj, held, imm, born>>
                ELSE IF ~HasDict(self)
                THEN \* PyDict_Update(new_dict, NULL) reports a bad internal call
                     /\ res' = Call("union", self, args, kw, NoKey, RetNULL, "SystemError", a.ndict + 1, 0)
                     /\ UNCHANGED <<dictobj, held, imm, born>>
                ELSE /\ Alloc(UnionDict(SelfDict(self), a.d))
                     /\ res' = Call("union", self, args, kw, NoKey, RetImm(Len(imm) + 1), "none", a.ndict + 1, 1)

(***************************************************************************)
(* merge_with: METH_VARARGS                                                *)
(***************************************************************************)
\* new_dict of the loop: unset (NULL) or a dict under construction
NoNewDict == [set |-> FALSE, d |-> EmptyDict]

\* the update with its operands exchanged: earlier bindings win
MergeStep_FirstWins(base, element) == PyDict_Update(element, base)

\* PyDict_Update(new_dict, element)
MergeStep(base, element) == PyDict_Update(base, element)

MergeEnd(ok, nd, n, err) == [ok |-> ok, nd |-> nd, ndict |-> n, err |-> err]

\* the for loop of merge_with from index i on; n counts the dicts created
RECURSIVE MergeLoop(_, _, _, _, _)
MergeLoop(self, args, i, nd, n) ==
    IF i > Len(args) THEN MergeEnd(TRUE, nd, n, "none")
    ELSE
      LET e == args[i] IN
      IF e.t = "none" THEN MergeLoop(self, args, i + 1, nd, n)
      ELSE
        LET conv == IF PyDict_CheckExact(e) THEN Ok(dictobj[e.id])
                                            ELSE DictCall(<<e>>, EmptyDict)
            n1   == IF PyDict_CheckExact(e) \/ ~conv.ok THEN n ELSE n + 1
        IN
        IF ~conv.ok THEN MergeEnd(FALSE, nd, n1, conv.err)
        ELSE IF PyDict_CheckExact(e) /\ PyDict_Size(conv.d) = 0
             THEN MergeLoop(self, args, i + 1, nd, n1)
        ELSE IF ~nd.set /\ ~HasDict(self)
             THEN MergeEnd(FALSE, nd, n1 + 1, "SystemError")
        ELSE
          LET base == IF nd.set THEN nd.d
                                ELSE PyDict_Update(EmptyDict, SelfDict(self))
              n2   == IF nd.set THEN n1 ELSE n1 + 1
          IN  MergeLoop(self, args, i + 1,
                        [set |-> TRUE, d |-> MergeStep(base, conv.d)], n2)

ImmutableDict_merge_with(self, args) ==
    /\ Len(imm) <= MaxImm          \* room for the one instance it may return
    /\ LET m == MergeLoop(self, args, 1, NoNewDict, 0)
       IN  IF ~m.ok
           THEN /\ res' = Call("merge_with", self, args, EmptyDict, NoKey, RetNULL, m.err, m.ndict, 0)
                /\ UNCHANGED <<dictobj, held, imm, born>>
           ELSE IF m.nd.set
           THEN /\ Alloc(m.nd.d)
                /\ res' = Call("merge_with", self, args, EmptyDict, NoKey, RetImm(Len(imm) + 1), "none", m.ndict, 1)
           ELSE /\ res' = Call("merge_with", self, args, EmptyDict, NoKey, RetImm(self), "none", m.ndict, 0)
                /\ UNCHANGED <<dictobj, held, imm, born>>

(***************************************************************************)
(* Read-only methods.  Each reads self->dict without any lock.              *)
(***************************************************************************)
Frame == UNCHANGED <<dictobj, held, imm, born>>

\* mp_length
ImmutableDict_length(r, self) ==
    /\ res' = IF HasDict(self)
                THEN Read("length", r, self, NoKey, RetVal(PyDict_Size(SelfDict(self))), "none")
                ELSE Read("length", r, self, NoKey, RetNULL, "SystemError")
    /\ Frame

\* PyUnicode_AsUTF8String(key) / PyString_AsString(key): defined on str only
IsStr(key) == key \notin {ObjKey, BadKey}

\* mp_subscript
ImmutableDict_subscript(r, self, key, py) ==
    /\ res' =
         IF ~HasDict(self) THEN Read("subscript", r, self, key, RetNULL, "Fault")
         ELSE IF key = BadKey  \* error while hashing the key
              THEN Read("subscript", r, self, key, RetNULL, "TypeError")
         ELSE IF key \in DOMAIN SelfDict(self)
              THEN Read("subscript", r, self, key, RetVal(SelfDict(self)[key]), "none")
         ELSE IF IsStr(key)
              THEN Read("subscript", r, self, key, RetNULL, "KeyError") @@ [msg |-> key]
         ELSE IF py = 3
              THEN \* PyUnicode_AsUTF8String fails: err_bytes == NULL
                   Read("subscript", r, self, key, RetNULL, "TypeError")
              ELSE \* PyString_AsString returns NULL, passed to "%s"
                   Read("subscript", r, self, key, RetNULL, "Fault")
    /\ Frame

\* get(key, default=None)
ImmutableDict_get(r, self, key, default) ==
    /\ res' =
         IF ~HasDict(self) THEN Read("get", r, self, key, RetNULL, "Fault")
         ELSE IF key = BadKey
              THEN Read("get", r, self, key, RetNULL, "TypeError")
         ELSE IF key \in DOMAIN SelfDict(self)
              THEN Read("get", r, self, key, RetVal(SelfDict(self)[key]), "none")
         ELSE Read("get", r, self, key, RetVal(default), "none")
    /\ Frame

\* __contains__
ImmutableDict_contains(r, self, key) ==
    /\ res' =
         IF ~HasDict(self) THEN Read("contains", r, self, key, RetNULL, "Fault")
         ELSE IF key = BadKey
              THEN Read("contains", r, self, key, RetNULL, "TypeError")
         ELSE Read("contains", r, self, key, RetVal(key \in DOMAIN SelfDict(self)), "none")
    /\ Frame

\* keys(): a new list
ImmutableDict_keys(r, self) ==
    /\ res' = IF HasDict(self)
                THEN Read("keys", r, self, NoKey, RetVal(DOMAIN SelfDict(self)), "none")
                ELSE Read("keys", r, self, NoKey, RetNULL, "SystemError")
    /\ Frame

\* values(): a new list
ImmutableDict_values(r, self) ==
    /\ res' = IF HasDict(self)
                THEN Read("values", r, self, NoKey,
                          RetVal({SelfDict(self)[k] : k \in DOMAIN SelfDict(self)}), "none")
                ELSE Read("values", r, self, NoKey, RetNULL, "SystemError")
    /\ Frame

\* items(): a new list of pairs
ImmutableDict_items(r, self) ==
    /\ res' = IF HasDict(self)
                THEN Read("items", r, self, NoKey,
                          RetVal({<<k, SelfDict(self)[k]>> : k \in DOMAIN SelfDict(self)}), "none")
                ELSE Read("items", r, self, NoKey, RetNULL, "SystemError")
    /\ Frame

\* tp_iter: a key iterator over self->dict
ImmutableDict_iter(r, self) ==
    /\ res' = IF HasDict(self)
                THEN Read("iter", r, self, NoKey, RetVal(DOMAIN SelfDict(self)), "none")
                ELSE Read("iter", r, self, NoKey, RetNULL, "Fault")
    /\ Frame

\* tp_richcompare of == against a plain dict held by the caller
ImmutableDict_richcompare(r, self, other) ==
    /\ res' = IF HasDict(self)
                THEN Read("eq", r, self, NoKey, RetVal(SelfDict(self) = dictobj[other]), "none")
                ELSE Read("eq", r, self, NoKey, RetNULL, "SystemError")
    /\ Frame

\* __reduce__: Py_BuildValue("O(O)", type, self->dict) hands out self->dict
ImmutableDict_reduce(r, self) ==
    IF HasDict(self)
    THEN /\ res' = Read("reduce", r, self, NoKey, RetDict(imm[self].dict), "none")
         /\ held' = held \cup {imm[self].dict}
         /\ UNCHANGED <<dictobj, imm, born>>
    ELSE /\ res' = Read("reduce", r, self, NoKey, RetNULL, "SystemError")
         /\ Frame

(***************************************************************************)
(* The caller mutates a plain dict it holds a reference to                 *)
(***************************************************************************)
CallerSetItem(i, k, v) ==
    /\ dictobj' = [dictobj EXCEPT ![i] = PyDict_Update(@, [x \in {k} |-> v])]
    /\ res' = Call("setitem", 0, <<ArgDict(i)>>, EmptyDict, k, RetNULL, "none", 0, 0)
    /\ UNCHANGED <<held, imm, born>>

CallerDelItem(i, k) ==
    /\ k \in DOMAIN dictobj[i]
    /\ dictobj' = [dictobj EXCEPT ![i] = [x \in (DOMAIN @) \ {k} |-> @[x]]]
    /\ res' = Call("delitem", 0, <<ArgDict(i)>>, EmptyDict, k, RetNULL, "none", 0, 0)
    /\ UNCHANGED <<held, imm, born>>

(***************************************************************************)
(* BaseRow (resultproxy.c)                                                 *)
(***************************************************************************)
KEY_OBJECTS_ONLY     == 1
KEY_OBJECTS_BUT_WARN == 2
KeyStyles == 0..3

RawVals == {10, 20}                 \* values as the driver returns them
Procs   == {"None", "neg", "boom"}  \* Py_None, a coercion, a coercion that raises
Filters == {"None", "inc", "fboom"} \* Py_None, a filter, a filter that raises
Raises(f) == f \in {"boom", "fboom"}
\* what the callables return: "neg" negates, "inc" adds one
Apply(f, v) == IF f = "neg" THEN 0 - v ELSE v + 1

\* PyLong_AsLong: the value if it fits a C long, else -1 with OverflowError
PyLong_AsLong(v) ==
    IF v >= 0 - LongMax - 1 /\ v <= LongMax THEN [ok |-> TRUE, v |-> v]
                                           ELSE [ok |-> FALSE, v |-> 0 - 1]

\* keymap records: element 0 of the tuple is the index, or None when the key
\* names more than one column
Rec(i)  == [amb |-> FALSE, index |-> i]
RecAmb  == [amb |-> TRUE,  index |-> 0]

\* the keymap the result metadata built: two columns, an ambiguous name, a
\* record whose index lies beyond every row, and a column named like a member
Keymap0 == [k \in {"x", "y", "amb", "far", "_data"} |->
              CASE k = "x" -> Rec(0) [] k = "y" -> Rec(1)
                [] k = "amb" -> RecAmb [] k = "_data" -> Rec(1)
                [] OTHER -> Rec(MaxRow)]

\* constructor arguments
ProcNone     == [t |-> "none", v |-> <<>>]       \* processors is Py_None
ProcSeq(ps)  == [t |-> "seq",  v |-> ps]
RowSeq(vs)   == [t |-> "seq",  v |-> vs]         \* list or tuple of raw values
RowBad       == [t |-> "bad",  v |-> <<>>]       \* not iterable
KeymapDict(i) == [t |-> "dict", id |-> i]        \* an exact dict
KeymapBad     == [t |-> "notdict", id |-> 0]

ProcArgs   == {ProcNone} \cup {ProcSeq(ps) : ps \in UNION {[1..n -> Procs] : n \in 0..MaxRow}}
RowArgs    == {RowBad} \cup {RowSeq(vs) : vs \in UNION {[1..n -> RawVals] : n \in 0..MaxRow}}
KeymapArgs == {KeymapBad} \cup {KeymapDict(i) : i \in 1..Len(keymapobj)}
Parents    == {1}                                 \* ResultMetaData objects

\* the struct as tp_alloc leaves it: every pointer NULL
NoRow == [state |-> "none", parent |-> NULL, rowset |-> FALSE, row |-> <<>>,
          keymap |-> NULL, key_style |-> 0]

NoArgs == [parent |-> NULL, processors |-> ProcNone, keymap |-> KeymapBad,
           key_style |-> 0, row |-> RowBad]

\* one call out of the extension: an owner hook, or the callable f applied
\* to arg for the value at position pos
Ev(e, pos) == [ev |-> e, pos |-> pos, f |-> "", arg |-> 0]
Called(f, pos, arg) == [ev |-> "call", pos |-> pos, f |-> f, arg |-> arg]

RRet(t, v) == [t |-> t, v |-> v]
RNULL == [t |-> "NULL", v |-> 0]

\* fb: what the owner's fallback would do if the call reached it
RCall(op, key, ret, err) ==
    [op |-> op, key |-> key, ret |-> ret, err |-> err, arg |-> ProcNone,
     fb |-> [t |-> "raise", err |-> "KeyError", rec |-> RecAmb, owned |-> TRUE,
             mem |-> "intact"]]

\* keys of the subscript operations
IntKey(i)      == [t |-> "int",   i |-> i, hi |-> 0,  name |-> ""]
SliceKey(l, h) == [t |-> "slice", i |-> l, hi |-> h,  name |-> ""]
NameKey(n)     == [t |-> "obj",   i |-> 0, hi |-> 0,  name |-> n]
NoRowKey       == NameKey("")

IntKeys   == {IntKey(i) : i \in (0 - LongMax - 2)..(LongMax + 2)}
SliceKeys == {SliceKey(l, h) : l \in 0..1, h \in 1..MaxRow}
NameKeys  == {NameKey(n) : n \in {"x", "y", "amb", "far", "zz"}}

\* no row call is pending
NoRCall == RCall("none", NoRowKey, RNULL, "none")
RIdle == rres = NoRCall

\* hash values the caller has taken: none yet
NoHashes == [row |-> <<>>, peer |-> <<>>]

(***************************************************************************)
(* tp_init                                                                 *)
(***************************************************************************)
\* the comparison with its sense lost: only a surplus of values is reported
SizesDiffer_OnlyMore(num_values, num_processors) == num_values > num_processors

\* num_values != num_processors
SizesDiffer(num_values, num_processors) == num_values # num_processors

\* the while loop over the values: processors called so far and tuple built
RECURSIVE ProcessLoop(_, _, _, _, _)
ProcessLoop(vals, procs, i, out, calls) ==
    IF i > Len(vals) THEN [ok |-> TRUE, out |-> out, calls |-> calls]
    ELSE IF procs[i] = "None"
         THEN ProcessLoop(vals, procs, i + 1, Append(out, vals[i]), calls)
    ELSE IF Raises(procs[i])
         THEN [ok |-> FALSE, out |-> out,
               calls |-> Append(calls, Called(procs[i], i, vals[i]))]
    ELSE ProcessLoop(vals, procs, i + 1, Append(out, Apply(procs[i], vals[i])),
                     Append(calls, Called(procs[i], i, vals[i])))

\* tp_init returned -1: the struct keeps what was stored before the failure
InitFails(s, err, calls) ==
    [obj |-> [s EXCEPT !.state = "dead"], ret |-> 0 - 1, err |-> err, calls |-> calls]

\* the body of BaseRow_init on the struct self
tp_init(self, parent, processors, keymap, key_style, row) ==
    LET s1 == [self EXCEPT !.parent = parent]
    IN  IF row.t # "seq" THEN InitFails(s1, "TypeError", <<>>)
        ELSE IF processors.t # "none" /\ SizesDiffer(Len(row.v), Len(processors.v))
             THEN InitFails(s1, "RuntimeError", <<>>)
        ELSE
          LET r == IF processors.t = "none"
                   THEN [ok |-> TRUE, out |-> row.v, calls |-> <<>>]
                   ELSE ProcessLoop(row.v, processors.v, 1, <<>>, <<>>)
          IN  IF ~r.ok THEN InitFails(s1, "ProcessorError", r.calls)
              ELSE
                LET s2 == [s1 EXCEPT !.rowset = TRUE, !.row = r.out]
                IN  IF keymap.t # "dict" THEN InitFails(s2, "TypeError", r.calls)
                    ELSE [obj |-> [s2 EXCEPT !.state = "live",
                                             !.keymap = keymap.id,
                                             !.key_style = PyLong_AsLong(key_style).v],
                          ret |-> 0, err |-> "none", calls |-> r.calls]

BaseRow_init(parent, processors, keymap, key_style, row) ==
    /\ rowobj.state = "none"
    /\ made' = [parent |-> parent, processors |-> processors, keymap |-> keymap,
                key_style |-> key_style, row |-> row]
    /\ LET r == tp_init(rowobj, parent, processors, keymap, key_style, row)
       IN  /\ rowobj' = r.obj
           /\ rres' = RCall("init", NoRowKey, RRet("int", r.ret), r.err)
           /\ trace' = r.calls
    /\ UNCHANGED <<keymapobj, peer, hashes>>

(***************************************************************************)
(* Subscript                                                               *)
(***************************************************************************)
Got(v, calls)       == [ret |-> RRet("val", v), err |-> "none", calls |-> calls]
Raised(err, calls)  == [ret |-> RNULL, err |-> err, calls |-> calls]

\* coercion put off until the value is read
BaseRow_getitem_Lazy(i, calls) ==
    IF i < 0 \/ i >= Len(rowobj.row) THEN Raised("IndexError", calls)
    ELSE Got(rowobj.row[i + 1], Append(calls, Called("neg", i + 1, rowobj.row[i + 1])))

\* sq_item: PyTuple_GetItem(self->row, i)
BaseRow_getitem(i, calls) ==
    IF i < 0 \/ i >= Len(rowobj.row) THEN Raised("IndexError", calls)
                                     ELSE Got(rowobj.row[i + 1], calls)

\* what parent._key_fallback(key, None) may do: raise, or return a record.
\* owned: something besides the returned reference keeps the record alive;
\* mem: what the record's memory holds once its last reference is dropped
Fallbacks ==
    {[t |-> "raise", err |-> e, rec |-> RecAmb, owned |-> TRUE, mem |-> "intact"] :
        e \in {"KeyError", "OtherError"}}
    \cup {[t |-> "rec", err |-> "none", rec |-> r, owned |-> TRUE, mem |-> "intact"] :
        r \in {RecAmb, Rec(0), Rec(1)}}
    \cup {[t |-> "rec", err |-> "none", rec |-> Rec(0), owned |-> FALSE, mem |-> "intact"]}
    \cup {[t |-> "rec", err |-> "none", rec |-> RecAmb, owned |-> FALSE, mem |-> m] :
        m \in {"intact", "garbage"}}
NoFallback == [t |-> "raise", err |-> "KeyError", rec |-> RecAmb, owned |-> TRUE,
               mem |-> "intact"]

\* the fallback is called even though the keymap holds the key
UsesFallback_Always(hit) == TRUE

\* record == NULL after PyDict_GetItem
UsesFallback(hit) == ~hit

\* the warning no longer looks at the kind of access
Warns_AnyAccess(asmapping, key_style) == key_style = KEY_OBJECTS_BUT_WARN

\* !asmapping && self->key_style == KEY_OBJECTS_BUT_WARN
Warns(asmapping, key_style) == ~asmapping /\ key_style = KEY_OBJECTS_BUT_WARN

BaseRow_getitem_by_object(key, asmapping, fb) ==
    LET km    == keymapobj[rowobj.keymap]
        hit   == key.t = "obj" /\ key.name \in DOMAIN km
        c1    == <<Ev("keymap", 0)>>
    IN  IF UsesFallback(hit) /\ key.t = "slice" THEN Raised("TypeError", c1)
        ELSE
          LET key_fallback == UsesFallback(hit)
              c2 == IF key_fallback THEN Append(c1, Ev("_key_fallback", 0)) ELSE c1
          IN  IF key_fallback /\ fb.t = "raise" THEN Raised(fb.err, c2)
              ELSE
                LET record == IF key_fallback THEN fb.rec ELSE km[key.name]
                    \* Py_DECREF(record) ran: a record nothing else holds is freed
                    freed  == key_fallback /\ ~fb.owned
                IN  IF record.amb
                    THEN IF freed /\ fb.mem = "garbage"
                         THEN Raised("undefined",
                                     Append(c2, Ev("_raise_for_ambiguous_column_name", 0)))
                         ELSE Raised("AmbiguousColumn",
                                     Append(c2, Ev("_raise_for_ambiguous_column_name", 0)))
                    ELSE
                      LET index == PyLong_AsLong(record.index)
                      IN  IF ~index.ok THEN Raised("OverflowError", c2)
                          ELSE IF Warns(asmapping, rowobj.key_style)
                               THEN BaseRow_getitem(index.v, Append(c2, Ev("_warn_for_nonint", 0)))
                               ELSE BaseRow_getitem(index.v, c2)

\* standard slicing of the tuple for 0 <= lo
SliceOf(row, lo, hi) ==
    SubSeq(row, lo + 1, IF hi < Len(row) THEN hi ELSE Len(row))

\* negative indexes count from the end
Normalize(index) == IF index < 0 THEN index + Len(rowobj.row) ELSE index

\* integer keys are refused under the wrong key style
RejectsInt_WhenWarn(key_style) == key_style = KEY_OBJECTS_BUT_WARN

\* self->key_style == KEY_OBJECTS_ONLY
RejectsInt(key_style) == key_style = KEY_OBJECTS_ONLY

\* every slice is sliced, whatever the key style
Slices_Always(key, key_style) == key.t = "slice"

\* PySlice_Check(key) && self->key_style != KEY_OBJECTS_ONLY
Slices(key, key_style) == key.t = "slice" /\ key_style # KEY_OBJECTS_ONLY

BaseRow_subscript_impl(key, asmapping, fb) ==
    IF key.t = "int"
    THEN IF RejectsInt(rowobj.key_style) THEN Raised("KeyError", <<>>)
         ELSE LET index == PyLong_AsLong(key.i)
              IN  IF ~index.ok THEN Raised("OverflowError", <<>>)
                  ELSE BaseRow_getitem(Normalize(index.v), <<>>)
    ELSE IF Slices(key, rowobj.key_style)
    THEN [ret |-> RRet("tuple", SliceOf(rowobj.row, key.i, key.hi)),
          err |-> "none", calls |-> <<>>]
    ELSE BaseRow_getitem_by_object(key, asmapping, fb)

\* a call on the live row: its record and the calls it made
RowCall(op, key, fb, out) ==
    /\ rowobj.state = "live"
    /\ rres' = [RCall(op, key, out.ret, out.err) EXCEPT !.fb = fb]
    /\ trace' = out.calls
    /\ UNCHANGED <<rowobj, keymapobj, made, peer, hashes>>

\* sq_item called through the sequence protocol, index already normalized
BaseRow_sq_item(i) ==
    RowCall("getitem", IntKey(i), NoFallback, BaseRow_getitem(i, <<>>))

\* _get_by_key_impl
BaseRow_subscript(key, fb) ==
    RowCall("subscript", key, fb, BaseRow_subscript_impl(key, FALSE, fb))

\* mp_subscript and _get_by_key_impl_mapping
BaseRow_subscript_mapping(key, fb) ==
    RowCall("subscript_mapping", key, fb,
            IF rowobj.key_style = KEY_OBJECTS_BUT_WARN
            THEN BaseRow_subscript_impl(key, FALSE, fb)
            ELSE BaseRow_subscript_impl(key, TRUE, fb))

(***************************************************************************)
(* Attribute access                                                        *)
(***************************************************************************)
\* names PyObject_GenericGetAttr resolves on the type: the getset members
Members == {"_parent", "_data", "_keymap", "_key_style"}
NonAscii == "nonascii#"              \* a name with a character beyond ASCII
AttrNames == {"x", "amb", "far", "zz", NonAscii, "_data", "_key_style"}

\* the getters of BaseRow_getseters
GetMember(name) ==
    CASE name = "_parent"    -> RRet("parent", rowobj.parent)
      [] name = "_data"      -> RRet("tuple", rowobj.row)
      [] name = "_keymap"    -> RRet("keymap", rowobj.keymap)
      [] OTHER               -> RRet("val", rowobj.key_style)

\* PyUnicode_AsASCIIString(name) succeeds
IsASCII(name) == name # NonAscii

\* PyErr_ExceptionMatches(PyExc_KeyError)
MatchesKeyError(err) == err = "KeyError"

BaseRow_getattro(name, fb) ==
    RowCall("getattro", NameKey(name), fb,
            IF name \in Members
            THEN [ret |-> GetMember(name), err |-> "none", calls |-> <<>>]
            ELSE LET tmp == BaseRow_subscript_impl(NameKey(name), TRUE, fb)
                 IN  IF tmp.ret = RNULL /\ MatchesKeyError(tmp.err)
                     THEN IF IsASCII(name) THEN Raised("AttributeError", tmp.calls)
                                           ELSE Raised("UnicodeEncodeError", tmp.calls)
                     ELSE tmp)

(***************************************************************************)
(* Length, iteration, values list, hash                                    *)
(***************************************************************************)
BaseRow_length ==
    RowCall("length", NoRowKey, NoFallback,
            [ret |-> RRet("int", Len(rowobj.row)), err |-> "none", calls |-> <<>>])

\* PySequence_Tuple or PySequence_List of the values
BaseRow_valuescollection(values, astuple) ==
    RRet(IF astuple THEN "tuple" ELSE "list", values)

BaseRow_values_impl ==
    RowCall("values_impl", NoRowKey, NoFallback,
            [ret |-> BaseRow_valuescollection(rowobj.row, FALSE),
             err |-> "none", calls |-> <<>>])

\* iterating empties the row
BaseRow_iter_Consuming ==
    /\ rowobj.state = "live"
    /\ rres' = RCall("iter", NoRowKey, RRet("iter", rowobj.row), "none")
    /\ trace' = <<>>
    /\ rowobj' = [rowobj EXCEPT !.row = <<>>]
    /\ UNCHANGED <<keymapobj, made, peer, hashes>>

\* an iterator over a fresh tuple of the values
BaseRow_iter ==
    RowCall("iter", NoRowKey, NoFallback,
            [ret |-> RRet("iter", BaseRow_valuescollection(rowobj.row, TRUE).v),
             err |-> "none", calls |-> <<>>])

\* hash of a tuple: combines the hashes of its items in order
HashMod == 251
RECURSIVE TupleHash(_, _)
TupleHash(t, acc) ==
    IF t = <<>> THEN acc
    ELSE TupleHash(Tail(t), (acc * 31 + (Head(t) % HashMod) + 7) % HashMod)
PyObject_Hash(t) == TupleHash(t, Len(t) + 1)

\* the hash also mixes in the owner
hash_WithOwner(self) == (PyObject_Hash(self.row) + self.parent) % HashMod

\* tp_hash: PyObject_Hash(self->row)
hash(self) == PyObject_Hash(self.row)

\* the caller hashes the row, then the row the last call handed to it
BaseRow_hash(which) ==
    /\ IF which = "row" THEN rowobj.state = "live" /\ hashes.row = <<>>
                        ELSE peer.state = "live" /\ hashes.row # <<>> /\ hashes.peer = <<>>
    /\ LET h == hash(IF which = "row" THEN rowobj ELSE peer)
       IN  /\ hashes' = [hashes EXCEPT ![which] = <<h>>]
           /\ rres' = [RCall("hash", NoRowKey, RRet("hash", h), "none")
                         EXCEPT !.arg = which]
    /\ trace' = <<>>
    /\ UNCHANGED <<rowobj, keymapobj, made, peer>>

(***************************************************************************)
(* _filter_on_values                                                       *)
(***************************************************************************)
FilterArgs == {ProcNone} \cup {ProcSeq(fs) : fs \in UNION {[1..n -> Filters] : n \in 0..MaxRow}}

\* the new row is built from the values as the driver returned them
FilterSource_Raw(self) == made.row.v

\* the values handed to the Row constructor: self->row
FilterSource(self) == self.row

\* Row(self->parent, filters, self->keymap, key_style, self->row)
BaseRow_filter_on_values(filters) ==
    /\ rowobj.state = "live"
    /\ LET r == tp_init(NoRow, rowobj.parent, filters, KeymapDict(rowobj.keymap),
                        rowobj.key_style, RowSeq(FilterSource(rowobj)))
       IN  /\ peer' = IF r.ret = 0 THEN r.obj ELSE NoRow
           /\ rres' = [RCall("filter_on_values", NoRowKey,
                             IF r.ret = 0 THEN RRet("row", 0) ELSE RNULL, r.err)
                         EXCEPT !.arg = filters]
           /\ trace' = r.calls
    /\ UNCHANGED <<rowobj, keymapobj, made, hashes>>

(***************************************************************************)
(* Reconstruction from pickled state                                       *)
(***************************************************************************)
Owners == {1, 2}                        \* ResultMetaData objects
Unset == [set |-> FALSE, v |-> <<>>]         \* the values were not assigned
UnsetStyle == [set |-> FALSE, v |-> 0]      \* the key style was not assigned
SetTo(v) == [set |-> TRUE, v |-> v]

\* what a subclass's __setstate__ does with the state: for each attribute,
\* leave it alone or assign it; or raise
SetStates ==
    {[raises |-> FALSE, parent |-> p, row |-> r, keymap |-> k, key_style |-> ks] :
        p \in {NULL} \cup Owners,
        r \in {Unset, SetTo(<<10>>), SetTo(<<10, 20>>)},
        k \in {NULL, 1},
        ks \in {UnsetStyle, SetTo(KEY_OBJECTS_ONLY)}}
    \cup {[raises |-> TRUE, parent |-> NULL, row |-> Unset, keymap |-> NULL,
           key_style |-> UnsetStyle]}

\* the setters of BaseRow_getseters, applied to the attributes assigned
BaseRow_setparent(self, value) == [self EXCEPT !.parent = value]
BaseRow_setrow(self, value) == [self EXCEPT !.rowset = TRUE, !.row = value]
BaseRow_setkeymap(self, value) == [self EXCEPT !.keymap = value]
\* the key style given is dropped
BaseRow_setkeystyle_Zero(self, value) == [self EXCEPT !.key_style = 0]

BaseRow_setkeystyle(self, value) == [self EXCEPT !.key_style = PyLong_AsLong(value).v]

setstate(obj, st) ==
    LET o1 == IF st.parent # NULL THEN BaseRow_setparent(obj, st.parent) ELSE obj
        o2 == IF st.row.set THEN BaseRow_setrow(o1, st.row.v) ELSE o1
        o3 == IF st.keymap # NULL THEN BaseRow_setkeymap(o2, st.keymap) ELSE o2
    IN  IF st.key_style.set THEN BaseRow_setkeystyle(o3, st.key_style.v) ELSE o3

\* obj->parent, obj->row and obj->keymap are all set
Restored(obj) == obj.parent # NULL /\ obj.rowset /\ obj.keymap # NULL

safe_rowproxy_reconstructor(st) ==
    /\ LET obj == setstate(NoRow, st)
       IN  IF st.raises
           THEN /\ peer' = NoRow
                /\ rres' = [RCall("reconstructor", NoRowKey, RNULL, "SetStateError")
                              EXCEPT !.arg = st]
           ELSE IF ~Restored(obj)
           THEN /\ peer' = NoRow
                /\ rres' = [RCall("reconstructor", NoRowKey, RNULL, "RuntimeError")
                              EXCEPT !.arg = st]
           ELSE /\ peer' = [obj EXCEPT !.state = "live"]
                /\ rres' = [RCall("reconstructor", NoRowKey, RRet("row", 0), "none")
                              EXCEPT !.arg = st]
    /\ trace' = <<>>
    /\ UNCHANGED <<rowobj, keymapobj, made, hashes>>

(***************************************************************************)
(* Pickling                                                                *)
(***************************************************************************)
\* what Row.__getstate__ captures of a row: its four attributes
getstate(self) ==
    [raises |-> FALSE, parent |-> self.parent, row |-> SetTo(self.row),
     keymap |-> self.keymap, key_style |-> SetTo(self.key_style)]

\* __reduce__: (rowproxy_reconstructor, (cls, self.__getstate__()))
BaseRow_reduce ==
    /\ rowobj.state = "live"
    /\ rres' = [RCall("reduce", NoRowKey, RRet("reduce", 0), "none")
                  EXCEPT !.arg = getstate(rowobj)]
    /\ trace' = <<>>
    /\ UNCHANGED <<rowobj, keymapobj, made, peer, hashes>>

(***************************************************************************)
(* The attribute setters, called on a row the caller was handed            *)
(***************************************************************************)
\* values assigned: t the type, n an int payload, r the items of a tuple
SetVal(t, n, r) == [t |-> t, n |-> n, r |-> r]
Delete == SetVal("del", 0, <<>>)               \* value == NULL: del row.attr
SetVals == {Delete, SetVal("ResultMetaData", 2, <<>>), SetVal("tuple", 0, <<20>>),
            SetVal("dict", 1, <<>>), SetVal("int", 2, <<>>),
            SetVal("int", LongMax + 1, <<>>)}
SetterNames == {"_parent", "_data", "_keymap", "_key_style"}

\* every value that is not a delete request is taken
SetterAccepts_AnyKind(name, value) == value.t # "del"

\* the NULL test and the type test of each setter
SetterAccepts(name, value) ==
    /\ value.t # "del"
    /\ CASE name = "_parent" -> value.t = "ResultMetaData"   \* PyObject_IsInstance
         [] name = "_data"   -> value.t = "tuple"            \* PySequence_Check
         [] name = "_keymap" -> value.t = "dict"             \* PyDict_CheckExact
         [] OTHER            -> value.t = "int"              \* PyLong_CheckExact

\* the assignment of an accepted value
SetterStores(self, name, value) ==
    CASE name = "_parent" -> BaseRow_setparent(self, value.n)
      [] name = "_data"   -> BaseRow_setrow(self, value.r)
      [] name = "_keymap" -> BaseRow_setkeymap(self, value.n)
      [] OTHER            -> BaseRow_setkeystyle(self, value.n)

\* row.name = value, or del row.name, on the row the reconstructor returned
BaseRow_set(name, value) ==
    /\ rres.op = "reconstructor" /\ peer.state = "live"
    /\ rowobj.state = "none"          \* before the caller constructs a row
    /\ IF SetterAccepts(name, value)
       THEN /\ peer' = SetterStores(peer, name, value)
            /\ rres' = [RCall("setter", NameKey(name), RRet("int", 0),
                              IF name = "_key_style" /\ ~PyLong_AsLong(value.n).ok
                              THEN "OverflowError" ELSE "none")
                          EXCEPT !.arg = value]
       ELSE /\ peer' = peer
            /\ rres' = [RCall("setter", NameKey(name), RRet("int", 0 - 1), "TypeError")
                          EXCEPT !.arg = value]
    /\ trace' = <<>>
    /\ UNCHANGED <<rowobj, keymapobj, made, hashes>>

\* the caller is done with the result of the last row call and drops the row
\* it was handed: BaseRow_dealloc
RDiscard ==
    /\ ~RIdle
    /\ rres' = NoRCall
    /\ trace' = <<>>
    /\ peer' = NoRow
    /\ hashes' = NoHashes
    /\ UNCHANGED <<rowobj, keymapobj, made>>

(***************************************************************************)
(* _distill_params                                                         *)
(***************************************************************************)
\* Python objects as the function sees them: k the type, n the payload (the
\* value of an int, the size of a dict), v the items of a tuple or list,
\* src where the object came from
PyObj(k, n, v, src) == [k |-> k, n |-> n, v |-> v, src |-> src]
PyNone      == PyObj("None", 0, <<>>, "none")
PyInt(n)    == PyObj("int", n, <<>>, "args")
PyStr       == PyObj("str", 0, <<>>, "args")
PyDict(n)   == PyObj("dict", n, <<>>, "args")       \* a dict of n bindings
PyTuple(v)  == PyObj("tuple", 0, v, "args")
PyList(v)   == PyObj("list", 0, v, "args")
KwDict(n)   == PyObj("dict", n, <<>>, "kw")         \* the **params dict
NewList(v)  == PyObj("newlist", 0, v, "distill")    \* a list PyList_New made

Scalars   == {PyInt(1), PyStr}
Units     == {PyDict(1)} \cup
             {PyTuple(v) : v \in UNION {[1..n -> Scalars] : n \in 0..MaxUnit}}
Elems     == Scalars \cup Units
ListItems == {PyInt(1), PyStr, PyDict(1), PyTuple(<<>>), PyTuple(<<PyInt(1)>>)}
Lists     == {PyList(v) : v \in UNION {[1..n -> ListItems] : n \in 0..MaxUnit}}

\* the multiparams argument: None, the tuple of the call's positional
\* arguments, or something that is not a tuple
Multiparams ==
    {PyNone, PyInt(1), PyList(<<PyInt(1)>>), PyTuple(<<>>)}
    \cup {PyTuple(<<z>>) : z \in Elems \cup Lists}
    \cup {PyTuple(v) : v \in UNION {[1..n -> Elems] : n \in 2..MaxMulti}}

\* the params argument: None, the dict of the call's keyword arguments, or
\* something that is not a dict
Params == {PyNone, KwDict(0), KwDict(2), PyObj("int", 5, <<>>, "kw")}

\* PyTuple_Size: -1 with SystemError for an object that is not a tuple
PyTuple_Size(o) == IF o.k = "tuple" THEN Len(o.v) ELSE 0 - 1

\* PyDict_Size of an object: -1 with SystemError for one that is not a dict
PyDict_SizeOf(o) == IF o.k = "dict" THEN o.n ELSE 0 - 1

\* an int counts as having __iter__
PyObject_HasAttrString_IntIter(o, name) ==
    CASE name = "__iter__" -> o.k \in {"int", "str", "dict", "tuple", "list", "newlist"}
      [] name = "strip"    -> o.k = "str"
      [] name = "keys"     -> o.k = "dict"
      [] OTHER             -> FALSE

\* PyObject_HasAttrString
PyObject_HasAttrString(o, name) ==
    CASE name = "__iter__" -> o.k \in {"str", "dict", "tuple", "list", "newlist"}
      [] name = "strip"    -> o.k = "str"
      [] name = "keys"     -> o.k = "dict"
      [] OTHER             -> FALSE

\* a string counts as iterable
IterableNotString_NoStrip(o) == PyObject_HasAttrString(o, "__iter__")

\* has __iter__ and has no strip
IterableNotString(o) ==
    PyObject_HasAttrString(o, "__iter__") /\ ~PyObject_HasAttrString(o, "strip")

\* the empty list argument is no longer passed through
ZeroIsUnits_NoEmpty(zero_element) ==
    Len(zero_element.v) # 0 /\ IterableNotString(zero_element.v[1])

\* zero_element_length == 0, or the first item is iterable and not a string
ZeroIsUnits(zero_element) ==
    Len(zero_element.v) = 0 \/ IterableNotString(zero_element.v[1])

\* every iterable counts as a mapping
MappingLike_Iter(o) == PyObject_HasAttrString(o, "__iter__")

\* PyObject_HasAttrString(zero_element, "keys")
MappingLike(o) == PyObject_HasAttrString(o, "keys")

\* params is used whatever its size
ParamsGiven_AnySize(params) == params # PyNone

\* params != Py_None && PyDict_Size(params) != 0
ParamsGiven(params) == params # PyNone /\ PyDict_SizeOf(params) # 0

\* params is also used when a single argument was passed
UsesParams_UpToOne(multiparam_size) == multiparam_size <= 1

\* multiparam_size == 0
UsesParams(multiparam_size) == multiparam_size = 0

DOk(o) == [ret |-> o, err |-> "none"]
DNULL == PyObj("NULL", 0, <<>>, "none")

distill_params(multiparams, params) ==
    LET multiparam_size == IF multiparams # PyNone THEN PyTuple_Size(multiparams) ELSE 0
    IN  IF multiparam_size < 0 THEN [ret |-> DNULL, err |-> "SystemError"]
        ELSE IF UsesParams(multiparam_size)
        THEN IF ParamsGiven(params)
             THEN \* the error PyDict_Size may have set is not looked at
                  [ret |-> NewList(<<params>>),
                   err |-> IF PyDict_SizeOf(params) < 0 THEN "SystemError" ELSE "none"]
             ELSE DOk(NewList(<<>>))
        ELSE IF multiparam_size = 1
        THEN LET zero_element == multiparams.v[1]
             IN  IF zero_element.k \in {"tuple", "list"}
                 THEN IF ZeroIsUnits(zero_element)
                      THEN DOk(zero_element)
                      ELSE DOk(NewList(<<zero_element>>))
                 ELSE IF MappingLike(zero_element)
                      THEN DOk(NewList(<<zero_element>>))
                      ELSE DOk(NewList(<<NewList(<<zero_element>>)>>))
        ELSE LET zero_element == multiparams.v[1]
             IN  IF IterableNotString(zero_element)
                 THEN DOk(multiparams)
                 ELSE DOk(NewList(<<multiparams>>))

DCall(op, multiparams, params, r) ==
    [op |-> op, multiparams |-> multiparams, params |-> params,
     ret |-> r.ret, err |-> r.err]
NoDCall == DCall("none", PyNone, PyNone, [ret |-> DNULL, err |-> "none"])

\* a call of _distill_params
Distill(multiparams, params) ==
    /\ dcall = NoDCall
    /\ dcall' = DCall("distill", multiparams, params, distill_params(multiparams, params))
    /\ UNCHANGED dprev

\* the caller repeats the call with the same multiparams and other params
DistillAgain(params) ==
    /\ dcall # NoDCall /\ dprev = NoDCall
    /\ dprev' = dcall
    /\ dcall' = DCall("distill", dcall.multiparams, params,
                      distill_params(dcall.multiparams, params))

\* the caller is done with the results
DDiscard ==
    /\ dcall # NoDCall
    /\ dcall' = NoDCall
    /\ dprev' = NoDCall

(***************************************************************************)
(* Specification of the combining operations: constructor, union and       *)
(* merge_with over every argument shape.                                   *)
(***************************************************************************)
NoGarbage == [t |-> "other", id |-> 0]

\* the caller is done with the result of the last call
Discard ==
    /\ ~Idle
    /\ res' = NoCall
    /\ UNCHANGED <<dictobj, held, imm, born>>

Init ==
    /\ dictobj = <<EmptyDict, [k \in {"a"} |-> 1]>>    \* the caller's own dicts
    /\ held = {1, 2}
    /\ imm = <<>>
    /\ born = <<>>
    /\ res = NoCall
    /\ rowobj = NoRow                                   \* no row constructed yet
    /\ keymapobj = <<Keymap0>>
    /\ made = NoArgs
    /\ trace = <<>>
    /\ rres = NoRCall
    /\ peer = NoRow
    /\ hashes = NoHashes
    /\ dcall = NoDCall
    /\ dprev = NoDCall

DNext ==
    \/ Idle /\ \E args \in ArgTuples, kw \in Kws :
          ImmutableDict_new(args, kw, TRUE) /\ UNCHANGED <<rvars, pvars>>
    \/ Idle /\ \E args \in {<<ArgNone>>, <<ArgBad>>}, kw \in Kws :
          ImmutableDict_new(args, kw, FALSE) /\ UNCHANGED <<rvars, pvars>>
    \/ Idle /\ \E self \in 1..Len(imm), args \in ArgTuples \ {<<>>}, kw \in Kws :
          ImmutableDict_union(self, args, kw, NoGarbage) /\ UNCHANGED <<rvars, pvars>>
    \/ Idle /\ \E self \in 1..Len(imm), kw \in Kws, g \in Garbage :
          ImmutableDict_union(self, <<>>, kw, g) /\ UNCHANGED <<rvars, pvars>>
    \/ Idle /\ \E self \in 1..Len(imm), args \in MergeArgs :
          ImmutableDict_merge_with(self, args) /\ UNCHANGED <<rvars, pvars>>
    \/ Discard /\ UNCHANGED <<rvars, pvars>>

DictSpec == Init /\ [][DNext]_vars

(***************************************************************************)
(* Specification of sharing: readers call the read-only methods of shared  *)
(* instances while the caller mutates the plain dicts it holds.            *)
(***************************************************************************)
SNext ==
    \/ Idle /\ \E i \in held :
          ImmutableDict_new(<<ArgDict(i)>>, EmptyDict, TRUE) /\ UNCHANGED <<rvars, pvars>>
    \/ Idle /\ \E handed \in BOOLEAN :
          ImmutableDict_new(<<ArgBad>>, EmptyDict, handed) /\ UNCHANGED <<rvars, pvars>>
    \/ Idle /\ \E self \in 1..Len(imm), i \in held :
          ImmutableDict_union(self, <<ArgDict(i)>>, EmptyDict, NoGarbage) /\ UNCHANGED <<rvars, pvars>>
    \/ Idle /\ \E self \in 1..Len(imm), i \in held :
          ImmutableDict_merge_with(self, <<ArgDict(i)>>) /\ UNCHANGED <<rvars, pvars>>
    \/ Idle /\ \E r \in Readers, self \in 1..Len(imm) :
          ImmutableDict_length(r, self) /\ UNCHANGED <<rvars, pvars>>
    \/ Idle /\ \E r \in Readers, self \in 1..Len(imm), key \in LookupKeys :
          ImmutableDict_subscript(r, self, key, 3) /\ UNCHANGED <<rvars, pvars>>
    \/ Idle /\ \E r \in Readers, self \in 1..Len(imm) :
          ImmutableDict_subscript(r, self, ObjKey, 2) /\ UNCHANGED <<rvars, pvars>>
    \/ Idle /\ \E r \in Readers, self \in 1..Len(imm), key \in LookupKeys, default \in {None} :
          ImmutableDict_get(r, self, key, default) /\ UNCHANGED <<rvars, pvars>>
    \/ Idle /\ \E r \in Readers, self \in 1..Len(imm), key \in LookupKeys :
          ImmutableDict_contains(r, self, key) /\ UNCHANGED <<rvars, pvars>>
    \/ Idle /\ \E r \in Readers, self \in 1..Len(imm) :
          ImmutableDict_keys(r, self) /\ UNCHANGED <<rvars, pvars>>
    \/ Idle /\ \E r \in Readers, self \in 1..Len(imm) :
          ImmutableDict_values(r, self) /\ UNCHANGED <<rvars, pvars>>
    \/ Idle /\ \E r \in Readers, self \in 1..Len(imm) :
          ImmutableDict_items(r, self) /\ UNCHANGED <<rvars, pvars>>
    \/ Idle /\ \E r \in Readers, self \in 1..Len(imm) :
          ImmutableDict_iter(r, self) /\ UNCHANGED <<rvars, pvars>>
    \/ Idle /\ \E r \in Readers, self \in 1..Len(imm), other \in held :
          ImmutableDict_richcompare(r, self, other) /\ UNCHANGED <<rvars, pvars>>
    \/ Idle /\ \E r \in Readers, self \in 1..Len(imm) :
          ImmutableDict_reduce(r, self) /\ UNCHANGED <<rvars, pvars>>
    \/ Idle /\ \E i \in held : CallerSetItem(i, "b", 2) /\ UNCHANGED <<rvars, pvars>>
    \/ Idle /\ \E i \in held : CallerDelItem(i, "b") /\ UNCHANGED <<rvars, pvars>>
    \/ Discard /\ UNCHANGED <<rvars, pvars>>

SInit ==
    /\ dictobj = <<[k \in {"a"} |-> 1]>>     \* the caller's own dict
    /\ held = {1}
    /\ imm = <<>>
    /\ born = <<>>
    /\ res = NoCall
    /\ rowobj = NoRow                                   \* no row constructed yet
    /\ keymapobj = <<Keymap0>>
    /\ made = NoArgs
    /\ trace = <<>>
    /\ rres = NoRCall
    /\ peer = NoRow
    /\ hashes = NoHashes
    /\ dcall = NoDCall
    /\ dprev = NoDCall

ShareSpec == SInit /\ [][SNext]_vars

(***************************************************************************)
(* Specification of a row: it is constructed once, then accessed.          *)
(***************************************************************************)
RNext ==
    \/ RIdle /\ \E parent \in Parents, processors \in ProcArgs, keymap \in KeymapArgs,
          key_style \in KeyStyles, row \in RowArgs :
          BaseRow_init(parent, processors, keymap, key_style, row) /\ UNCHANGED <<dvars, pvars>>
    \/ RIdle /\ \E key \in IntKeys \cup SliceKeys :
          BaseRow_subscript(key, NoFallback) /\ UNCHANGED <<dvars, pvars>>
    \/ RIdle /\ \E key \in NameKeys, fb \in Fallbacks :
          BaseRow_subscript(key, fb) /\ UNCHANGED <<dvars, pvars>>
    \/ RIdle /\ \E key \in IntKeys \cup SliceKeys :
          BaseRow_subscript_mapping(key, NoFallback) /\ UNCHANGED <<dvars, pvars>>
    \/ RIdle /\ \E key \in NameKeys, fb \in Fallbacks :
          BaseRow_subscript_mapping(key, fb) /\ UNCHANGED <<dvars, pvars>>
    \/ RIdle /\ \E name \in AttrNames, fb \in Fallbacks :
          BaseRow_getattro(name, fb) /\ UNCHANGED <<dvars, pvars>>
    \/ RIdle /\ \E i \in 0..MaxRow : BaseRow_sq_item(i) /\ UNCHANGED <<dvars, pvars>>
    \/ RIdle /\ BaseRow_length /\ UNCHANGED <<dvars, pvars>>
    \/ RIdle /\ BaseRow_values_impl /\ UNCHANGED <<dvars, pvars>>
    \/ RIdle /\ BaseRow_iter /\ UNCHANGED <<dvars, pvars>>
    \/ (RIdle \/ peer.state = "live") /\ \E which \in {"row", "peer"} :
          BaseRow_hash(which) /\ UNCHANGED <<dvars, pvars>>
    \/ RIdle /\ \E filters \in FilterArgs :
          BaseRow_filter_on_values(filters) /\ UNCHANGED <<dvars, pvars>>
    \/ RIdle /\ \E st \in SetStates :
          safe_rowproxy_reconstructor(st) /\ UNCHANGED <<dvars, pvars>>
    \/ RIdle /\ BaseRow_reduce /\ UNCHANGED <<dvars, pvars>>
    \/ rres.op = "reduce" /\ safe_rowproxy_reconstructor(rres.arg)
          /\ UNCHANGED <<dvars, pvars>>
    \/ \E name \in SetterNames, value \in SetVals :
          BaseRow_set(name, value) /\ UNCHANGED <<dvars, pvars>>
    \/ RDiscard /\ UNCHANGED <<dvars, pvars>>

RowSpec == Init /\ [][RNext]_vars

(***************************************************************************)
(* Specification of the parameter distiller: calls over every argument     *)
(* shape, each possibly repeated with other params.                        *)
(***************************************************************************)
PNext ==
    \/ dcall = NoDCall /\ \E multiparams \in Multiparams, params \in Params :
          Distill(multiparams, params) /\ UNCHANGED <<dvars, rvars>>
    \/ dcall # NoDCall /\ \E params \in Params :
          DistillAgain(params) /\ UNCHANGED <<dvars, rvars>>
    \/ DDiscard /\ UNCHANGED <<dvars, rvars>>

DistillSpec == Init /\ [][PNext]_vars

(***************************************************************************)
(* Properties of immutabledict                                             *)
(***************************************************************************)
\* an argument of an accepted shape that holds no binding
IsEmptyArg(x) == ToDict(x).ok /\ PyDict_Size(ToDict(x).d) = 0
IsNonEmptyArg(x) == ToDict(x).ok /\ PyDict_Size(ToDict(x).d) > 0

\* C1: m.merge_with(args...) returns the very instance m whenever every
\* argument is None or an empty argument of any accepted shape.
C1_MergeWithEmptyIsSelf ==
    (/\ res.op = "merge_with"
     /\ HasDict(res.self)
     /\ \A i \in 1..Len(res.args) : res.args[i] = ArgNone \/ IsEmptyArg(res.args[i]))
    => (res.ret = RetImm(res.self) /\ res.nimm = 0)

\* a call m.union(e) with one positional argument and no keyword
UnionOf(x) == res.op = "union" /\ res.args = <<x>> /\ res.kw = EmptyDict

\* C2 as stated: m.union(e) for an empty e of any accepted shape returns m
\* itself and creates no mapping object at all.
C2_UnionEmptyNoAllocation ==
    \A x \in ArgVals : (UnionOf(x) /\ IsEmptyArg(x))
        => (res.ret = RetImm(res.self) /\ res.nimm = 0 /\ res.ndict = 0)

\* C2 amended: m.union(e) for an empty e of any accepted shape returns m
\* itself and creates no immutabledict; an exact dict is used as it is, any
\* other shape is first converted into one temporary plain dict.
C2_UnionEmptyIsSelf ==
    \A x \in ArgVals : (UnionOf(x) /\ IsEmptyArg(x))
        => (/\ res.ret = RetImm(res.self)
            /\ res.nimm = 0
            /\ res.ndict = IF PyDict_CheckExact(x) THEN 0 ELSE 1)

C2_Witness ==
    \E x \in ArgVals : /\ UnionOf(x) /\ IsEmptyArg(x)
                        /\ x.t \in {"pairs", "imm"}
                        /\ res.ret = RetImm(res.self)

\* C3: m.union(o) for a non-empty o returns a new instance whose keys are
\* keys(m) united with keys(o), each key valued o[k] if k is in o, else m[k].
C3_UnionOverlay ==
    \A x \in ArgVals : (UnionOf(x) /\ IsNonEmptyArg(x) /\ HasDict(res.self))
        => LET m == SelfDict(res.self)
               o == ToDict(x).d
           IN  /\ res.ret.t = "imm"
               /\ res.ret.id = Len(imm)
               /\ res.ret.id # res.self
               /\ res.nimm = 1
               /\ HasDict(res.ret.id)
               /\ DOMAIN SelfDict(res.ret.id) = (DOMAIN m) \cup (DOMAIN o)
               /\ \A k \in DOMAIN SelfDict(res.ret.id) :
                      SelfDict(res.ret.id)[k] = IF k \in DOMAIN o THEN o[k] ELSE m[k]

\* the overlay replaces a value of m and keeps another binding of m apart
C3_Witness ==
    \E x \in ArgVals :
        /\ UnionOf(x) /\ IsNonEmptyArg(x) /\ HasDict(res.self)
        /\ res.ret.t = "imm"
        /\ \E k \in DOMAIN SelfDict(res.self) \cap DOMAIN ToDict(x).d :
               SelfDict(res.self)[k] # ToDict(x).d[k]

\* the arguments of merge_with that take part in the fold
Folded(args) == {i \in 1..Len(args) : args[i] # ArgNone /\ IsNonEmptyArg(args[i])}

Last(S) == CHOOSE i \in S : \A j \in S : j <= i

\* C4: m.merge_with(a1..an) with at least one non-empty argument returns a
\* new instance in which every key has the value of the last argument that
\* contains it, or m's value when no argument contains it.
C4_MergeWithFold ==
    (/\ res.op = "merge_with"
     /\ HasDict(res.self)
     /\ \A i \in 1..Len(res.args) : res.args[i] = ArgNone \/ ToDict(res.args[i]).ok
     /\ Folded(res.args) # {})
    => LET m    == SelfDict(res.self)
           F    == Folded(res.args)
           has(k) == {i \in F : k \in DOMAIN ToDict(res.args[i]).d}
       IN  /\ res.ret.t = "imm"
           /\ res.ret.id = Len(imm)
           /\ res.ret.id # res.self
           /\ res.nimm = 1
           /\ HasDict(res.ret.id)
           /\ DOMAIN SelfDict(res.ret.id) =
                  (DOMAIN m) \cup UNION {DOMAIN ToDict(res.args[i]).d : i \in F}
           /\ \A k \in DOMAIN SelfDict(res.ret.id) :
                  SelfDict(res.ret.id)[k] =
                      IF has(k) # {} THEN ToDict(res.args[Last(has(k))]).d[k]
                                     ELSE m[k]

\* two folded arguments disagree on a key, and the later one wins
C4_Witness ==
    /\ res.op = "merge_with" /\ HasDict(res.self) /\ res.ret.t = "imm"
    /\ \E i, j \in Folded(res.args) :
          /\ i < j
          /\ \E k \in DOMAIN ToDict(res.args[i]).d \cap DOMAIN ToDict(res.args[j]).d :
                 ToDict(res.args[i]).d[k] # ToDict(res.args[j]).d[k]

\* C5: the contents of every immutabledict stay what they were when its
\* constructor returned, whatever the readers and the caller do afterwards.
C5_ContentsNeverChange ==
    \A j \in 1..Len(imm) : HasDict(j) => SelfDict(j) = born[j]

\* C6: m[k] for a hashable key k that is not in m, string or not, fails with
\* KeyError whose message renders k, and returns no value.
C6_MissingKeyIsKeyError ==
    (/\ res.op = "subscript"
     /\ HasDict(res.self)
     /\ res.key # BadKey
     /\ res.key \notin DOMAIN SelfDict(res.self))
    => (res.ret = RetNULL /\ res.err = "KeyError" /\ res.msg = res.key)

\* C7: constructing from a source that cannot be coerced to key/value pairs
\* fails and yields no instance; no instance without storage ever exists.
C7_BadSourceYieldsNoInstance ==
    /\ \A j \in 1..Len(imm) : HasDict(j)
    /\ (res.op = "new" /\ Len(res.args) = 1 /\ ~DictCall(res.args, res.kw).ok)
          => (res.ret = RetNULL /\ res.err # "none")

\* C8: the contents of immutabledict(source, **kw) are those of the reference
\* constructor dict(source, **kw): the source's pairs overlaid by kw.
C8_NewMatchesDictConstructor ==
    (res.op = "new" /\ Len(res.args) <= 1 /\ DictCall(res.args, res.kw).ok)
    => (/\ res.ret.t = "imm"
        /\ HasDict(res.ret.id)
        /\ SelfDict(res.ret.id) = DictCall(res.args, res.kw).d)

(***************************************************************************)
(* Properties of BaseRow                                                   *)
(***************************************************************************)
IsSubscript == rres.op \in {"subscript", "subscript_mapping"}

\* C9: with key_style other than OBJECTS_ONLY an integer key i is normalized
\* to i + n when negative; inside [0, n) the stored value is returned, else
\* the access fails with IndexError; keymap and owner hooks are not consulted.
C9_PositionalAccess ==
    (IsSubscript /\ rres.key.t = "int" /\ rowobj.key_style # KEY_OBJECTS_ONLY)
    => LET n == Len(rowobj.row)
           j == IF rres.key.i < 0 THEN rres.key.i + n ELSE rres.key.i
       IN  /\ trace = <<>>
           /\ IF j >= 0 /\ j < n
              THEN rres.err = "none" /\ rres.ret = RRet("val", rowobj.row[j + 1])
              ELSE rres.err = "IndexError" /\ rres.ret = RNULL

\* the constructor was given a processors sequence and a values sequence
\* of different lengths
Mismatch ==
    /\ rres.op = "init"
    /\ made.row.t = "seq" /\ made.processors.t = "seq"
    /\ Len(made.processors.v) # Len(made.row.v)

\* C10: construction with a processors sequence whose length differs from
\* the number of values fails with RuntimeError before any processor runs,
\* and no row results.
C10_LengthMismatchIsFatal ==
    Mismatch => /\ rres.ret = RRet("int", 0 - 1)
                /\ rres.err = "RuntimeError"
                /\ trace = <<>>
                /\ rowobj.state = "dead"
                /\ ~rowobj.rowset

\* a mismatch in which a processor stood ready for the first value
C10_Witness ==
    /\ Mismatch
    /\ Len(made.row.v) > 0 /\ Len(made.processors.v) > Len(made.row.v)
    /\ made.processors.v[1] # "None"
    /\ rres.err = "RuntimeError"

(***************************************************************************)
(* Properties of the row: coercion, key lookup, derived rows               *)
(***************************************************************************)
\* positions whose processor is not None
NonNone(procs) == {i \in 1..Len(procs) : procs[i] # "None"}

\* the operations that read a row
AccessOps == {"subscript", "subscript_mapping", "getattro", "getitem", "length",
              "values_impl", "iter", "hash"}

\* C11: a successful construction calls each processor that is not None
\* exactly once, in positional order, on the raw value of its own position,
\* and stores processor(raw) there, or raw where the processor is None or
\* processors is None; no operation that reads the row calls a processor.
C11_CoercionOnceAtConstruction ==
    /\ (rres.op = "init" /\ rres.err = "none")
       => LET raw == made.row.v
          IN  IF made.processors.t = "none"
              THEN trace = <<>> /\ rowobj.row = raw
              ELSE LET procs == made.processors.v
                   IN  /\ Len(trace) = Cardinality(NonNone(procs))
                       /\ \A k \in 1..Len(trace) :
                             /\ trace[k].ev = "call"
                             /\ trace[k].pos \in NonNone(procs)
                             /\ trace[k].f = procs[trace[k].pos]
                             /\ trace[k].arg = raw[trace[k].pos]
                             /\ k > 1 => trace[k - 1].pos < trace[k].pos
                       /\ Len(rowobj.row) = Len(raw)
                       /\ \A i \in 1..Len(raw) :
                             rowobj.row[i] = IF procs[i] = "None" THEN raw[i]
                                             ELSE Apply(procs[i], raw[i])
    /\ rres.op \in AccessOps => \A k \in 1..Len(trace) : trace[k].ev # "call"

\* a value coerced at construction is read by position and comes back as stored
C11_Witness ==
    /\ rres.op = "subscript" /\ rres.key.t = "int" /\ rres.err = "none"
    /\ rres.key.i >= 0
    /\ made.processors.t = "seq"
    /\ made.processors.v[rres.key.i + 1] = "neg"
    /\ rres.ret = RRet("val", Apply("neg", made.row.v[rres.key.i + 1]))

\* the operations that may look a key up
LookupOps == {"subscript", "subscript_mapping", "getattro"}

\* the last call was a key lookup: it consulted the keymap
KeyLookup == rres.op \in LookupOps /\ trace # <<>> /\ trace[1].ev = "keymap"

\* the key of the last call is in the keymap
InKeymap == rres.key.t = "obj" /\ rres.key.name \in DOMAIN keymapobj[rowobj.keymap]

\* positions in the trace of the calls of an owner hook
HookAt(h) == {k \in 1..Len(trace) : trace[k].ev = h}

\* C12: in a key lookup the owner's fallback is called exactly when the key
\* is not in the keymap and is not a slice, once, after the keymap was
\* consulted; when it raises, the error reaches the caller and no value is
\* returned (attribute access hands it on as C18 describes).
C12_FallbackOnlyOnMiss ==
    KeyLookup =>
       /\ Cardinality(HookAt("_key_fallback")) =
             IF ~InKeymap /\ rres.key.t # "slice" THEN 1 ELSE 0
       /\ \A k \in HookAt("_key_fallback") : k > 1
       /\ (HookAt("_key_fallback") # {} /\ rres.fb.t = "raise")
             => /\ rres.ret = RNULL
                /\ rres.err # "none"
                /\ IsSubscript => rres.err = rres.fb.err

\* a key the keymap lacks is resolved by the fallback and its value returned
C12_Witness ==
    /\ KeyLookup /\ ~InKeymap
    /\ HookAt("_key_fallback") # {} /\ rres.fb.t = "rec"
    /\ rres.err = "none" /\ rres.ret.t = "val"

\* the record the last key lookup resolved the key to is the ambiguous one
ResolvedAmbiguous ==
    /\ KeyLookup
    /\ \/ InKeymap /\ keymapobj[rowobj.keymap][rres.key.name].amb
       \/ ~InKeymap /\ rres.key.t = "obj" /\ rres.fb.t = "rec" /\ rres.fb.rec.amb

\* C13: a key whose record, from the keymap or from the fallback, has None
\* as its index always fails with the owner's ambiguous-column error and
\* returns no value; every index inside the row still reads positionally.
C13_AmbiguousKeyAlwaysFails ==
    /\ ResolvedAmbiguous
          => /\ rres.ret = RNULL
             /\ rres.err = "AmbiguousColumn"
             /\ Cardinality(HookAt("_raise_for_ambiguous_column_name")) = 1
    /\ (rres.op = "getitem" /\ rres.key.i >= 0 /\ rres.key.i < Len(rowobj.row))
          => rres.err = "none" /\ rres.ret = RRet("val", rowobj.row[rres.key.i + 1])

\* C14: under KEY_OBJECTS_ONLY an integer key fails with KeyError through
\* both subscript entry points, whatever the row holds, and returns no value.
C14_IntegerKeyRejected ==
    (IsSubscript /\ rres.key.t = "int" /\ rowobj.key_style = KEY_OBJECTS_ONLY)
    => (rres.ret = RNULL /\ rres.err = "KeyError" /\ trace = <<>>)

\* an index inside the row is refused through the mapping entry point
C14_Witness ==
    /\ rres.op = "subscript_mapping" /\ rres.key.t = "int"
    /\ rowobj.key_style = KEY_OBJECTS_ONLY
    /\ rres.key.i >= 0 /\ rres.key.i < Len(rowobj.row)
    /\ rres.err = "KeyError"

\* the last key lookup resolved its key to a record with an index
ResolvedToIndex ==
    /\ KeyLookup
    /\ \/ InKeymap /\ ~keymapobj[rowobj.keymap][rres.key.name].amb
       \/ ~InKeymap /\ rres.key.t = "obj" /\ rres.fb.t = "rec" /\ ~rres.fb.rec.amb

\* C15 as stated: the warning hook is called exactly when key_style is
\* KEY_OBJECTS_BUT_WARN and a non-integer key is resolved through the
\* sequence entry point; lookups through the mapping entry point and
\* attribute access never call it.
C15_WarnOnlyOutsideMappingAccess ==
    /\ rres.op \in LookupOps
          => (HookAt("_warn_for_nonint") # {}
                <=> /\ ResolvedToIndex
                    /\ rowobj.key_style = KEY_OBJECTS_BUT_WARN
                    /\ rres.op = "subscript")
    /\ rres.op \in {"subscript_mapping", "getattro"} => HookAt("_warn_for_nonint") = {}

\* C15 amended: the warning hook is called exactly when key_style is
\* KEY_OBJECTS_BUT_WARN and a non-integer key is resolved to an index through
\* either subscript entry point (under this key style both pass asmapping
\* false); it is called once, after the resolution and as the last call
\* before the value is fetched; attribute access never calls it.
C15_WarnUnlessAttribute ==
    /\ rres.op \in LookupOps
          => /\ HookAt("_warn_for_nonint") # {}
                  <=> /\ ResolvedToIndex
                      /\ rowobj.key_style = KEY_OBJECTS_BUT_WARN
                      /\ IsSubscript
             /\ Cardinality(HookAt("_warn_for_nonint")) <= 1
             /\ \A k \in HookAt("_warn_for_nonint") : k = Len(trace) /\ k > 1
    /\ rres.op = "getattro" => HookAt("_warn_for_nonint") = {}

\* the mapping entry point warns and then returns the value
C15_Witness ==
    /\ rres.op = "subscript_mapping" /\ rowobj.key_style = KEY_OBJECTS_BUT_WARN
    /\ HookAt("_warn_for_nonint") # {}
    /\ rres.err = "none" /\ rres.ret.t = "val"

\* the last call sliced the row and returned the sub-sequence
Sliced ==
    /\ rres.err = "none"
    /\ rres.ret = RRet("tuple", SliceOf(rowobj.row, rres.key.i, rres.key.hi))

\* C16 as stated: under KEY_OBJECTS_ONLY a slice through the mapping entry
\* point fails with TypeError; a slice through the sequence entry point is
\* applied to the values under every key style.
C16_SequenceEntryAlwaysSlices ==
    /\ (rres.op = "subscript_mapping" /\ rres.key.t = "slice"
          /\ rowobj.key_style = KEY_OBJECTS_ONLY)
          => (rres.ret = RNULL /\ rres.err = "TypeError")
    /\ (rres.op = "subscript" /\ rres.key.t = "slice") => Sliced

\* C16 amended: under KEY_OBJECTS_ONLY a slice fails with TypeError through
\* both entry points; under every other key style a slice through the
\* sequence entry point is applied to the values.
C16_SliceUnlessObjectsOnly ==
    /\ (IsSubscript /\ rres.key.t = "slice" /\ rowobj.key_style = KEY_OBJECTS_ONLY)
          => (rres.ret = RNULL /\ rres.err = "TypeError")
    /\ (rres.op = "subscript" /\ rres.key.t = "slice"
          /\ rowobj.key_style # KEY_OBJECTS_ONLY) => Sliced

\* the sequence entry point refuses a slice that lies inside the row
C16_Witness ==
    /\ rres.op = "subscript" /\ rres.key.t = "slice"
    /\ rowobj.key_style = KEY_OBJECTS_ONLY
    /\ rres.key.hi <= Len(rowobj.row)
    /\ rres.err = "TypeError"

\* the calls of filters and processors the last call made
CallsMade == {k \in 1..Len(trace) : trace[k].ev = "call"}

\* the row is still what its construction made of the constructor's arguments
RowAsConstructed ==
    rowobj = tp_init(NoRow, made.parent, made.processors, made.keymap,
                     made.key_style, made.row).obj

\* C17: r._filter_on_values(f) with f as long as r returns a new row with
\* r's owner, keymap and key_style whose value at i is f_i(r_i), or r_i where
\* f_i is None; r is unchanged and r's processors are not called again; if a
\* filter raises, or the lengths differ, no row is returned.
C17_FilterOnValues ==
    (rres.op = "filter_on_values" /\ rres.arg.t = "seq")
    => LET f == rres.arg.v
       IN  /\ RowAsConstructed
           /\ \A k \in CallsMade : trace[k].f \in Filters \ {"None"}
           /\ IF Len(f) = Len(rowobj.row) /\ \A i \in 1..Len(f) : ~Raises(f[i])
              THEN /\ rres.ret = RRet("row", 0) /\ rres.err = "none"
                   /\ peer.state = "live"
                   /\ peer.parent = rowobj.parent
                   /\ peer.keymap = rowobj.keymap
                   /\ peer.key_style = rowobj.key_style
                   /\ Len(peer.row) = Len(rowobj.row)
                   /\ \A i \in 1..Len(f) :
                         peer.row[i] = IF f[i] = "None" THEN rowobj.row[i]
                                       ELSE Apply(f[i], rowobj.row[i])
              ELSE /\ rres.ret = RNULL /\ rres.err # "none"
                   /\ peer = NoRow

\* a value its processor had coerced is passed through a filter
C17_Witness ==
    /\ rres.op = "filter_on_values" /\ rres.arg.t = "seq" /\ rres.err = "none"
    /\ \E i \in 1..Len(rowobj.row) :
          /\ made.processors.t = "seq" /\ made.processors.v[i] = "neg"
          /\ rres.arg.v[i] = "inc"
          /\ peer.row[i] = Apply("inc", Apply("neg", made.row.v[i]))

\* C18: attribute access returns a built-in member without a key lookup;
\* any other name is looked up as a key: a KeyError of that lookup becomes
\* AttributeError, every other error of it reaches the caller as it is.
C18_AttributeAccess ==
    rres.op = "getattro" =>
       IF rres.key.name \in Members
       THEN /\ rres.ret = GetMember(rres.key.name) /\ rres.err = "none"
            /\ trace = <<>>
       ELSE /\ KeyLookup
            /\ (~InKeymap /\ rres.fb.t = "raise" /\ rres.fb.err = "KeyError")
                  => (rres.ret = RNULL /\ rres.err = "AttributeError")
            /\ (~InKeymap /\ rres.fb.t = "raise" /\ rres.fb.err # "KeyError")
                  => (rres.ret = RNULL /\ rres.err = rres.fb.err)
            /\ (ResolvedAmbiguous /\ (InKeymap \/ rres.fb.owned))
                  => (rres.ret = RNULL /\ rres.err = "AmbiguousColumn")

\* the two rows the caller hashed hold equal values
BothHashed == hashes.row # <<>> /\ hashes.peer # <<>>

\* C19: two rows with equal values have equal hashes, whatever their
\* owner, keymap and key_style.
C19_HashOfValuesOnly ==
    (BothHashed /\ rowobj.row = peer.row) => hashes.row = hashes.peer

\* equal values under different owners and key styles
C19_Witness ==
    /\ BothHashed /\ rowobj.row = peer.row /\ rowobj.row # <<>>
    /\ rowobj.parent # peer.parent
    /\ rowobj.key_style # peer.key_style
    /\ hashes.row = hashes.peer

\* the attributes the state-restoration step of the last reconstruction set
AllRestored(st) ==
    st.parent # NULL /\ st.row.set /\ st.keymap # NULL /\ st.key_style.set

\* C20: the reconstructor returns a row only if __setstate__ set parent,
\* keymap, key_style and the values; if any of the four is left unset it
\* fails with RuntimeError and returns no row.
C20_ReconstructorChecksAllFour ==
    (rres.op = "reconstructor" /\ ~rres.arg.raises)
    => IF AllRestored(rres.arg)
       THEN rres.ret = RRet("row", 0) /\ peer.state = "live"
       ELSE rres.ret = RNULL /\ rres.err = "RuntimeError" /\ peer = NoRow

\* what a key of the keymap resolves to on a row: the ambiguous failure, a
\* value, or no value at that index
Outcome(self, k) ==
    LET record == keymapobj[self.keymap][k]
    IN  IF record.amb THEN <<"ambiguous">>
        ELSE IF record.index < Len(self.row) THEN <<"value", self.row[record.index + 1]>>
        ELSE <<"IndexError">>

\* the last call reconstructed a row from the state of the constructed row
RoundTrip ==
    /\ rres.op = "reconstructor" /\ rowobj.state = "live"
    /\ rres.arg = getstate(rowobj)

C22_RowImmutable ==
    [][(rowobj.state = "live" /\ rres'.op # "setter")
          => (rowobj' = rowobj /\ keymapobj' = keymapobj)]_vars

\* a row with values was read, filtered or pickled and is as constructed
C22_Witness ==
    /\ rres.op \in {"iter", "filter_on_values", "reduce", "getattro"}
    /\ rowobj.state = "live" /\ rowobj.row # <<>>
    /\ RowAsConstructed
    /\ keymapobj = <<Keymap0>>

\* the kind of value each attribute takes
KindOf(name) ==
    CASE name = "_parent" -> "ResultMetaData" [] name = "_data" -> "tuple"
      [] name = "_keymap" -> "dict" [] OTHER -> "int"

\* C30: each setter rejects a delete request and a value of the wrong kind
\* with TypeError and then leaves the row as it was; an accepted call
\* changes only its own attribute.
C30_SettersCheckAndFrame ==
    [][rres'.op = "setter"
         => LET name == rres'.key.name
                value == rres'.arg
            IN  IF value.t = "del" \/ value.t # KindOf(name)
                THEN /\ rres'.ret = RRet("int", 0 - 1) /\ rres'.err = "TypeError"
                     /\ peer' = peer
                ELSE /\ rres'.ret = RRet("int", 0)
                     /\ name # "_parent" => peer'.parent = peer.parent
                     /\ name # "_data" => (peer'.row = peer.row /\ peer'.rowset = peer.rowset)
                     /\ name # "_keymap" => peer'.keymap = peer.keymap
                     /\ name # "_key_style" => peer'.key_style = peer.key_style
                     /\ name = "_parent" => peer'.parent = value.n
                     /\ name = "_data" => peer'.row = value.r
                     /\ name = "_keymap" => peer'.keymap = value.n]_vars

\* a value of the wrong kind was refused
C30_Witness ==
    /\ rres.op = "setter" /\ rres.arg.t \notin {"del", KindOf(rres.key.name)}
    /\ rres.err = "TypeError"
    /\ peer.state = "live"

(***************************************************************************)
(* Properties of _distill_params                                           *)
(***************************************************************************)
\* the call just made, with arguments of the documented kinds
Distilled == dcall.op = "distill"
NoMultiparams == dcall.multiparams \in {PyNone, PyTuple(<<>>)}
ParamsWellFormed(params) == params.k \in {"None", "dict"}
OneElement == dcall.multiparams.k = "tuple" /\ Len(dcall.multiparams.v) = 1
ManyElements == dcall.multiparams.k = "tuple" /\ Len(dcall.multiparams.v) > 1

\* an object that is iterable and not string-like: a mapping, tuple or list
IterableAndNotStringLike(o) == o.k \in {"dict", "tuple", "list"}

\* C23: with empty or none multiparams the result is [params] when params is
\* a non-empty mapping and the empty list when params is none or an empty
\* mapping.
C23_NoMultiparams ==
    (Distilled /\ NoMultiparams /\ ParamsWellFormed(dcall.params))
    => /\ dcall.err = "none"
       /\ dcall.ret = IF dcall.params.k = "dict" /\ dcall.params.n > 0
                      THEN NewList(<<dcall.params>>)
                      ELSE NewList(<<>>)

\* both cases of params with no multiparams
C23_Witness ==
    /\ Distilled /\ dcall.multiparams = PyNone /\ dcall.params = KwDict(2)
    /\ dcall.ret = NewList(<<KwDict(2)>>)
    /\ dprev.op = "distill" /\ dprev.params = KwDict(0) /\ dprev.ret = NewList(<<>>)

\* C24 as stated: with one multiparams element z that is a list or tuple,
\* the result is z itself if z is empty or every element of z is iterable
\* and not string-like, and [z] otherwise.
C24_EveryElementOfZero ==
    (Distilled /\ OneElement /\ dcall.multiparams.v[1].k \in {"tuple", "list"})
    => LET z == dcall.multiparams.v[1]
       IN  /\ dcall.err = "none"
           /\ dcall.ret = IF \A i \in 1..Len(z.v) : IterableAndNotStringLike(z.v[i])
                          THEN z ELSE NewList(<<z>>)

\* C24: with one multiparams element z that is a list or tuple, the result
\* is z itself if z is empty or the first element of z is iterable and not
\* string-like, whatever the other elements are, and [z] otherwise.
C24_FirstElementOfZero ==
    (Distilled /\ OneElement /\ dcall.multiparams.v[1].k \in {"tuple", "list"})
    => LET z == dcall.multiparams.v[1]
       IN  /\ dcall.err = "none"
           /\ dcall.ret = IF Len(z.v) = 0 \/ IterableAndNotStringLike(z.v[1])
                          THEN z ELSE NewList(<<z>>)

\* a list of a tuple and a scalar came back as it was passed
C24_Witness ==
    /\ Distilled /\ OneElement
    /\ dcall.multiparams.v[1] = PyList(<<PyTuple(<<PyInt(1)>>), PyInt(1)>>)
    /\ dcall.ret = dcall.multiparams.v[1]

\* C25: with more than one multiparams element the result is multiparams
\* itself if its first element is iterable and not string-like, and
\* [multiparams] otherwise; a leading string is not split.
C25_ManyElements ==
    (Distilled /\ ManyElements)
    => /\ dcall.err = "none"
       /\ dcall.ret = IF IterableAndNotStringLike(dcall.multiparams.v[1])
                      THEN dcall.multiparams
                      ELSE NewList(<<dcall.multiparams>>)

\* arguments led by a string became one unit
C25_Witness ==
    /\ Distilled /\ ManyElements /\ dcall.multiparams.v[1] = PyStr
    /\ dcall.ret = NewList(<<dcall.multiparams>>)

\* C26: with one multiparams element z that is not a list or tuple the
\* result is [z] if z is mapping-like and [[z]] otherwise, a string included.
C26_OneElementNotSequence ==
    (Distilled /\ OneElement /\ dcall.multiparams.v[1].k \notin {"tuple", "list"})
    => LET z == dcall.multiparams.v[1]
       IN  /\ dcall.err = "none"
           /\ dcall.ret = IF z.k = "dict" THEN NewList(<<z>>)
                          ELSE NewList(<<NewList(<<z>>)>>)

\* a string argument became the one field of the one unit
C26_Witness ==
    /\ Distilled /\ OneElement /\ dcall.multiparams.v[1] = PyStr
    /\ dcall.ret = NewList(<<NewList(<<PyStr>>)>>)

\* the shape of a parameter unit
Shape(o) ==
    CASE o.k = "dict" -> "mapping"
      [] o.k \in {"tuple", "list", "newlist"} -> "positional"
      [] OTHER -> "scalar"

\* every unit is a mapping or every unit is a positional sequence
Uniform(units) ==
    \/ \A i \in 1..Len(units) : Shape(units[i]) = "mapping"
    \/ \A i \in 1..Len(units) : Shape(units[i]) = "positional"

\* the call returned a result
Accepted == Distilled /\ dcall.err = "none" /\ dcall.ret # DNULL

\* C27 as stated: every result is a sequence of units of one shape.
C27_OneShapeAlways == Accepted => Uniform(dcall.ret.v)

\* C27: a list the distiller builds holds at most one unit, a mapping or a
\* positional sequence; any other result is the caller's own sequence of
\* arguments returned unchanged, empty or led by a mapping or a positional
\* sequence, and its other elements are not looked at.
C27_OneShapeWhenBuilt ==
    Accepted
    => IF dcall.ret.k = "newlist"
       THEN Len(dcall.ret.v) <= 1 /\ Uniform(dcall.ret.v)
       ELSE /\ \/ dcall.ret = dcall.multiparams
               \/ OneElement /\ dcall.ret = dcall.multiparams.v[1]
            /\ Len(dcall.ret.v) = 0 \/ Shape(dcall.ret.v[1]) # "scalar"

\* a mapping followed by a positional sequence came back as passed
C27_Witness ==
    /\ Accepted
    /\ dcall.multiparams = PyTuple(<<PyDict(1), PyTuple(<<PyInt(1)>>)>>)
    /\ dcall.ret = dcall.multiparams
    /\ ~Uniform(dcall.ret.v)

\* multiparams is not none and not a tuple, or params is not none and not a
\* dict
Malformed ==
    \/ dcall.multiparams.k \notin {"None", "tuple"}
    \/ dcall.params.k \notin {"None", "dict"}

\* C28: malformed input fails with TypeError and returns no result.
C28_MalformedFails ==
    (Distilled /\ Malformed) => (dcall.ret = DNULL /\ dcall.err = "TypeError")

\* o is, or holds within two levels, an object that came from params
FromParams(o) ==
    \/ o.src = "kw"
    \/ \E i \in 1..Len(o.v) :
          \/ o.v[i].src = "kw"
          \/ \E j \in 1..Len(o.v[i].v) : o.v[i].v[j].src = "kw"

\* the same non-empty multiparams was distilled with two params
TwoParams ==
    /\ Distilled /\ dprev.op = "distill"
    /\ dcall.multiparams.k = "tuple" /\ Len(dcall.multiparams.v) > 0
    /\ ParamsWellFormed(dcall.params) /\ ParamsWellFormed(dprev.params)

\* C29: with non-empty multiparams the result is the same for any two
\* params and holds nothing of params.
C29_ParamsIgnored ==
    TwoParams
    => /\ dcall.ret = dprev.ret /\ dcall.err = dprev.err
       /\ ~FromParams(dcall.ret) /\ ~FromParams(dprev.ret)

\* one argument, distilled with no params and with two bindings
C29_Witness ==
    /\ TwoParams /\ Len(dcall.multiparams.v) = 1
    /\ dprev.params = PyNone /\ dcall.params = KwDict(2)
    /\ dcall.ret = dprev.ret /\ dcall.ret # DNULL

====
